---------------------------- MODULE Spec2Model ----------------------------
(***************************************************************************)
(* Model of ChatGateway (src/src/chat/chat.gateway.ts): the in-memory      *)
(* users / groups arrays, the socket.io rooms the handlers join and leave, *)
(* and one action per gateway handler.                                     *)
(*                                                                         *)
(* Every handler runs to completion on the single node.js event loop, so   *)
(* each handler is one atomic action.  Besides the program state the model *)
(* keeps the last event handled (last), the value its handler returned     *)
(* (ack) and the emits it issued, in order (out); each emit records the    *)
(* sockets that were in the addressed room when it was issued.             *)
(* The wall-clock timestamp field of the payloads is not modelled; the     *)
(* notification text `${username} joined the group` is kept as the pair    *)
(* (who, message).                                                         *)
(***************************************************************************)
EXTENDS Integers, Sequences, FiniteSets, TLC

\* ---- bounds ----
MaxConn == 2                      \* number of socket connections ever opened
Sockets == 1..MaxConn             \* socket ids; an id is never reused
Names == {"alice", "bob"}         \* usernames clients may send
GroupNames == {"g1"}              \* group names clients may send
Messages == {"hi"}                \* message bodies
UserIds == {"id1", "id2"}         \* values generateUserId may return

VARIABLES users, groups, conn, rooms, last, ack, out

vars == <<users, groups, conn, rooms, last, ack, out>>

\* ---- helpers: array operations used by the handlers ----

\* Array.prototype.find, as an index: the first i with socketId = sid, else 0
FindBySocket(us, sid) ==
    IF \E i \in 1..Len(us) : us[i].socketId = sid
    THEN CHOOSE i \in 1..Len(us) :
            /\ us[i].socketId = sid
            /\ \A j \in 1..(i-1) : us[j].socketId # sid
    ELSE 0

\* this.users.find(user => user.username === username), as an index
FindByName(us, username) ==
    IF \E i \in 1..Len(us) : us[i].username = username
    THEN CHOOSE i \in 1..Len(us) :
            /\ us[i].username = username
            /\ \A j \in 1..(i-1) : us[j].username # username
    ELSE 0

\* this.groups.find(g => g.name === groupName), as an index
FindGroup(gs, groupName) ==
    IF \E i \in 1..Len(gs) : gs[i].name = groupName
    THEN CHOOSE i \in 1..Len(gs) :
            /\ gs[i].name = groupName
            /\ \A j \in 1..(i-1) : gs[j].name # groupName
    ELSE 0

\* group.members.includes(username)
Includes(members, username) == \E i \in 1..Len(members) : members[i] = username

\* members.filter(member => member !== username)
WithoutMember(members, username) ==
    LET keep(m) == m # username IN SelectSeq(members, keep)

\* the room name `group:${groupName}` and the room every socket has for its id
GroupRoom(groupName) == [kind |-> "group", name |-> groupName]
SocketRoom(sid) == [kind |-> "socket", id |-> sid]

\* the sockets server.to(room).emit reaches, given the room table rm
InRoom(room, rm, cn) ==
    IF room.kind = "socket"
    THEN IF cn[room.id] = "open" THEN {room.id} ELSE {}
    ELSE rm[room.name]

Emit(room, event, payload, rm, cn) ==
    [room |-> room, event |-> event, payload |-> payload,
     recipients |-> InRoom(room, rm, cn)]

Void == [void |-> TRUE]

\* ---- initial state: empty arrays, no connection opened yet ----
Init ==
    /\ users = <<>>
    /\ groups = <<>>
    /\ conn = [s \in Sockets |-> "new"]
    /\ rooms = [g \in GroupNames |-> {}]
    /\ last = [op |-> "init"]
    /\ ack = Void
    /\ out = <<>>

\* ---- handlers ----

\* socket.io gives every new connection a fresh id: ids are handed out in order
handleConnection(client) ==
    /\ conn[client] = "new"
    /\ \A s \in Sockets : s < client => conn[s] # "new"
    /\ conn' = [conn EXCEPT ![client] = "open"]
    /\ last' = [op |-> "connect", client |-> client]
    /\ ack' = Void
    /\ out' = <<>>
    /\ UNCHANGED <<users, groups, rooms>>

\* mutant: only the session found by users.find is removed
DisconnectUsersFoundOnly(us, client) ==
    LET i == FindBySocket(us, client) IN
    IF i # 0
    THEN SubSeq(us, 1, i - 1) \o SubSeq(us, i + 1, Len(us))
    ELSE us

\* users array after handleDisconnect
DisconnectUsers(us, client) ==
    IF FindBySocket(us, client) # 0
    THEN LET keep(u) == u.socketId # client IN SelectSeq(us, keep)
    ELSE us

\* mutant: groups left without members are dropped from the array
DisconnectGroupsReclaim(us, gs, client) ==
    LET i == FindBySocket(us, client)
        nonEmpty(g) == g.members # <<>>
    IN IF i # 0
       THEN SelectSeq([k \in 1..Len(gs) |->
                [gs[k] EXCEPT !.members = WithoutMember(gs[k].members, us[i].username)]],
                nonEmpty)
       ELSE gs

\* groups array after handleDisconnect
DisconnectGroups(us, gs, client) ==
    LET i == FindBySocket(us, client) IN
    IF i # 0
    THEN [k \in 1..Len(gs) |->
            [gs[k] EXCEPT !.members = WithoutMember(gs[k].members, us[i].username)]]
    ELSE gs

\* mutant: the close is announced to the groups, as handleLeaveGroup does
handleDisconnectNotifying(client) ==
    /\ conn[client] = "open"
    /\ conn' = [conn EXCEPT ![client] = "closed"]
    /\ rooms' = [g \in GroupNames |-> rooms[g] \ {client}]
    /\ users' = DisconnectUsers(users, client)
    /\ groups' = DisconnectGroups(users, groups, client)
    /\ last' = [op |-> "disconnect", client |-> client]
    /\ ack' = Void
    /\ out' = IF FindBySocket(users, client) # 0
              THEN [k \in 1..Len(groups) |->
                      Emit(GroupRoom(groups[k].name), "groupNotification",
                           [group |-> groups[k].name,
                            who |-> users[FindBySocket(users, client)].username,
                            message |-> "left the group"],
                           rooms', conn')]
              ELSE <<>>

\* a closing socket leaves all its rooms (socket.io), then the handler runs
handleDisconnect(client) ==
    /\ conn[client] = "open"
    /\ conn' = [conn EXCEPT ![client] = "closed"]
    /\ rooms' = [g \in GroupNames |-> rooms[g] \ {client}]
    /\ users' = DisconnectUsers(users, client)
    /\ groups' = DisconnectGroups(users, groups, client)
    /\ last' = [op |-> "disconnect", client |-> client]
    /\ ack' = Void
    /\ out' = <<>>

\* mutant: the push is not guarded by the lookup of the username
RegisterUsersAlwaysPush(us, username, client, id) ==
    Append(us, [id |-> id, username |-> username, socketId |-> client])

\* mutant: a reconnect replaces the whole entry, with a newly generated id
RegisterUsersFreshId(us, username, client, id) ==
    LET i == FindByName(us, username) IN
    IF i # 0
    THEN IF us[i].socketId # client
         THEN [us EXCEPT ![i] = [id |-> id, username |-> username, socketId |-> client]]
         ELSE us
    ELSE Append(us, [id |-> id, username |-> username, socketId |-> client])

\* mutant: a reconnect leaves the stored socketId as it was
RegisterUsersNoRebind(us, username, client, id) ==
    IF FindByName(us, username) # 0
    THEN us
    ELSE Append(us, [id |-> id, username |-> username, socketId |-> client])

\* users array after handleRegister; id is the value generateUserId returns
RegisterUsers(us, username, client, id) ==
    LET i == FindByName(us, username) IN
    IF i # 0
    THEN IF us[i].socketId # client
         THEN [us EXCEPT ![i].socketId = client]
         ELSE us
    ELSE Append(us, [id |-> id, username |-> username, socketId |-> client])

\* mutant: the socket of the existing user is not compared with the caller's
RegisterAckNoSocketCheck(us, username, client) ==
    IF FindByName(us, username) # 0
    THEN [success |-> TRUE, message |-> "Reconnected successfully"]
    ELSE [success |-> TRUE, message |-> "Registered successfully"]

RegisterAck(us, username, client) ==
    LET i == FindByName(us, username) IN
    IF i # 0
    THEN IF us[i].socketId # client
         THEN [success |-> TRUE, message |-> "Reconnected successfully"]
         ELSE [success |-> FALSE, message |-> "Username already taken"]
    ELSE [success |-> TRUE, message |-> "Registered successfully"]

handleRegister(username, client) ==
    /\ conn[client] = "open"
    /\ \E id \in UserIds : users' = RegisterUsers(users, username, client, id)
    /\ ack' = RegisterAck(users, username, client)
    /\ last' = [op |-> "register", client |-> client, username |-> username]
    /\ out' = <<>>
    /\ UNCHANGED <<groups, conn, rooms>>

\* mutant: the message is emitted to the sender's socket
PrivateMessageOutToSender(us, data, client, rm, cn) ==
    LET s == FindBySocket(us, client)
        r == FindByName(us, data.to)
    IN IF s = 0 \/ r = 0
       THEN <<>>
       ELSE << Emit(SocketRoom(us[s].socketId), "privateMessage",
                    [from |-> us[s].username, message |-> data.message], rm, cn) >>

\* the emits of handlePrivateMessage, in order
PrivateMessageOut(us, data, client, rm, cn) ==
    LET s == FindBySocket(us, client)
        r == FindByName(us, data.to)
    IN IF s = 0 \/ r = 0
       THEN <<>>
       ELSE << Emit(SocketRoom(us[r].socketId), "privateMessage",
                    [from |-> us[s].username, message |-> data.message], rm, cn) >>

PrivateMessageAck(us, data, client) ==
    IF FindBySocket(us, client) = 0
    THEN [success |-> FALSE, message |-> "You are not registered"]
    ELSE IF FindByName(us, data.to) = 0
    THEN [success |-> FALSE, message |-> "Recipient not found"]
    ELSE [success |-> TRUE, message |-> "Message sent"]

handlePrivateMessage(data, client) ==
    /\ conn[client] = "open"
    /\ out' = PrivateMessageOut(users, data, client, rooms, conn)
    /\ ack' = PrivateMessageAck(users, data, client)
    /\ last' = [op |-> "privateMessage", client |-> client, data |-> data]
    /\ UNCHANGED <<users, groups, conn, rooms>>

\* mutant: the push is not guarded by members.includes
JoinGroupsAlwaysPush(gs, groupName, username) ==
    LET gs1 == IF FindGroup(gs, groupName) = 0
               THEN Append(gs, [name |-> groupName, members |-> <<>>])
               ELSE gs
        k == FindGroup(gs1, groupName)
    IN [gs1 EXCEPT ![k].members = Append(@, username)]

\* groups array after the find-or-create and the conditional push of handleJoinGroup
JoinGroups(gs, groupName, username) ==
    LET gs1 == IF FindGroup(gs, groupName) = 0
               THEN Append(gs, [name |-> groupName, members |-> <<>>])
               ELSE gs
        k == FindGroup(gs1, groupName)
    IN IF ~Includes(gs1[k].members, username)
       THEN [gs1 EXCEPT ![k].members = Append(@, username)]
       ELSE gs1

\* mutant: client.join is missing
JoinRoomNoJoin(rm, groupName, client) == rm

\* room table after client.join / client.leave
JoinRoom(rm, groupName, client) == [rm EXCEPT ![groupName] = @ \cup {client}]

LeaveRoom(rm, groupName, client) == [rm EXCEPT ![groupName] = @ \ {client}]

\* mutant: the join notification is emitted before client.join
handleJoinGroupNotifyFirst(groupName, client) ==
    /\ conn[client] = "open"
    /\ LET u == FindBySocket(users, client) IN
       IF u = 0
       THEN /\ ack' = [success |-> FALSE, message |-> "You are not registered"]
            /\ out' = <<>>
            /\ UNCHANGED <<groups, rooms>>
       ELSE /\ groups' = JoinGroups(groups, groupName, users[u].username)
            /\ out' = << Emit(GroupRoom(groupName), "groupNotification",
                              [group |-> groupName, who |-> users[u].username,
                               message |-> "joined the group"],
                              rooms, conn) >>
            /\ rooms' = JoinRoom(rooms, groupName, client)
            /\ ack' = [success |-> TRUE, message |-> "Joined group successfully",
                       members |-> groups'[FindGroup(groups', groupName)].members]
    /\ last' = [op |-> "joinGroup", client |-> client, groupName |-> groupName]
    /\ UNCHANGED <<users, conn>>

\* mutant: the group is found or created before the caller is looked up
handleJoinGroupCreateFirst(groupName, client) ==
    /\ conn[client] = "open"
    /\ LET u == FindBySocket(users, client)
           gs1 == IF FindGroup(groups, groupName) = 0
                  THEN Append(groups, [name |-> groupName, members |-> <<>>])
                  ELSE groups
       IN
       IF u = 0
       THEN /\ ack' = [success |-> FALSE, message |-> "You are not registered"]
            /\ out' = <<>>
            /\ groups' = gs1
            /\ UNCHANGED rooms
       ELSE /\ groups' = JoinGroups(gs1, groupName, users[u].username)
            /\ rooms' = JoinRoom(rooms, groupName, client)
            /\ out' = << Emit(GroupRoom(groupName), "groupNotification",
                              [group |-> groupName, who |-> users[u].username,
                               message |-> "joined the group"],
                              rooms', conn) >>
            /\ ack' = [success |-> TRUE, message |-> "Joined group successfully",
                       members |-> groups'[FindGroup(groups', groupName)].members]
    /\ last' = [op |-> "joinGroup", client |-> client, groupName |-> groupName]
    /\ UNCHANGED <<users, conn>>

handleJoinGroup(groupName, client) ==
    /\ conn[client] = "open"
    /\ LET u == FindBySocket(users, client) IN
       IF u = 0
       THEN /\ ack' = [success |-> FALSE, message |-> "You are not registered"]
            /\ out' = <<>>
            /\ UNCHANGED <<groups, rooms>>
       ELSE /\ groups' = JoinGroups(groups, groupName, users[u].username)
            /\ rooms' = JoinRoom(rooms, groupName, client)
            /\ out' = << Emit(GroupRoom(groupName), "groupNotification",
                              [group |-> groupName, who |-> users[u].username,
                               message |-> "joined the group"],
                              rooms', conn) >>
            /\ ack' = [success |-> TRUE, message |-> "Joined group successfully",
                       members |-> groups'[FindGroup(groups', groupName)].members]
    /\ last' = [op |-> "joinGroup", client |-> client, groupName |-> groupName]
    /\ UNCHANGED <<users, conn>>

\* groups array after handleLeaveGroup
LeaveGroups(us, gs, groupName, client) ==
    LET u == FindBySocket(us, client)
        k == FindGroup(gs, groupName)
    IN IF u = 0 \/ k = 0
       THEN gs
       ELSE [gs EXCEPT ![k].members = WithoutMember(@, us[u].username)]

\* mutant: a caller who is not a member is told the group does not exist
LeaveGroupAckMembersOnly(us, gs, groupName, client) ==
    LET u == FindBySocket(us, client)
        k == FindGroup(gs, groupName)
    IN IF u = 0
       THEN [success |-> FALSE, message |-> "You are not registered"]
       ELSE IF k = 0 \/ ~Includes(gs[k].members, us[u].username)
       THEN [success |-> FALSE, message |-> "Group not found"]
       ELSE [success |-> TRUE, message |-> "Left group successfully"]

LeaveGroupAck(us, gs, groupName, client) ==
    IF FindBySocket(us, client) = 0
    THEN [success |-> FALSE, message |-> "You are not registered"]
    ELSE IF FindGroup(gs, groupName) = 0
    THEN [success |-> FALSE, message |-> "Group not found"]
    ELSE [success |-> TRUE, message |-> "Left group successfully"]

handleLeaveGroup(groupName, client) ==
    /\ conn[client] = "open"
    /\ ack' = LeaveGroupAck(users, groups, groupName, client)
    /\ groups' = LeaveGroups(users, groups, groupName, client)
    /\ rooms' = IF ack'.success THEN LeaveRoom(rooms, groupName, client) ELSE rooms
    /\ out' = IF ack'.success
              THEN << Emit(GroupRoom(groupName), "groupNotification",
                           [group |-> groupName,
                            who |-> users[FindBySocket(users, client)].username,
                            message |-> "left the group"],
                           rooms', conn) >>
              ELSE <<>>
    /\ last' = [op |-> "leaveGroup", client |-> client, groupName |-> groupName]
    /\ UNCHANGED <<users, conn>>

\* mutant: the membership check is missing
GroupMessageAckNoMemberCheck(us, gs, data, client) ==
    IF FindBySocket(us, client) = 0
    THEN [success |-> FALSE, message |-> "You are not registered"]
    ELSE IF FindGroup(gs, data.group) = 0
    THEN [success |-> FALSE, message |-> "Group not found"]
    ELSE [success |-> TRUE, message |-> "Group message sent"]

\* mutant: the group is looked up before the sender
GroupMessageAckGroupFirst(us, gs, data, client) ==
    LET s == FindBySocket(us, client)
        k == FindGroup(gs, data.group)
    IN IF k = 0
       THEN [success |-> FALSE, message |-> "Group not found"]
       ELSE IF s = 0
       THEN [success |-> FALSE, message |-> "You are not registered"]
       ELSE IF ~Includes(gs[k].members, us[s].username)
       THEN [success |-> FALSE, message |-> "You are not a member of this group"]
       ELSE [success |-> TRUE, message |-> "Group message sent"]

\* the acknowledgment of handleGroupMessage
GroupMessageAck(us, gs, data, client) ==
    LET s == FindBySocket(us, client)
        k == FindGroup(gs, data.group)
    IN IF s = 0
       THEN [success |-> FALSE, message |-> "You are not registered"]
       ELSE IF k = 0
       THEN [success |-> FALSE, message |-> "Group not found"]
       ELSE IF ~Includes(gs[k].members, us[s].username)
       THEN [success |-> FALSE, message |-> "You are not a member of this group"]
       ELSE [success |-> TRUE, message |-> "Group message sent"]

\* the emits of handleGroupMessage, in order
GroupMessageOut(us, gs, data, client, rm, cn) ==
    IF GroupMessageAck(us, gs, data, client).success
    THEN << Emit(GroupRoom(data.group), "groupMessage",
                 [group |-> data.group,
                  from |-> us[FindBySocket(us, client)].username,
                  message |-> data.message],
                 rm, cn) >>
    ELSE <<>>

handleGroupMessage(data, client) ==
    /\ conn[client] = "open"
    /\ ack' = GroupMessageAck(users, groups, data, client)
    /\ out' = GroupMessageOut(users, groups, data, client, rooms, conn)
    /\ last' = [op |-> "groupMessage", client |-> client, data |-> data]
    /\ UNCHANGED <<users, groups, conn, rooms>>

\* mutant: the generated ids are listed instead of the usernames
handleGetUsersIds ==
    /\ \E c \in Sockets : conn[c] = "open"
    /\ ack' = [users |-> [i \in 1..Len(users) |-> users[i].id]]
    /\ out' = <<>>
    /\ last' = [op |-> "getUsers"]
    /\ UNCHANGED <<users, groups, conn, rooms>>

\* the three queries take no client argument; they arrive over some open socket
handleGetUsers ==
    /\ \E c \in Sockets : conn[c] = "open"
    /\ ack' = [users |-> [i \in 1..Len(users) |-> users[i].username]]
    /\ out' = <<>>
    /\ last' = [op |-> "getUsers"]
    /\ UNCHANGED <<users, groups, conn, rooms>>

handleGetGroups ==
    /\ \E c \in Sockets : conn[c] = "open"
    /\ ack' = [groups |-> [i \in 1..Len(groups) |->
                  [name |-> groups[i].name, memberCount |-> Len(groups[i].members)]]]
    /\ out' = <<>>
    /\ last' = [op |-> "getGroups"]
    /\ UNCHANGED <<users, groups, conn, rooms>>

handleGetGroupDetails(groupName) ==
    /\ \E c \in Sockets : conn[c] = "open"
    /\ LET k == FindGroup(groups, groupName) IN
       ack' = IF k = 0
              THEN [success |-> FALSE, message |-> "Group not found"]
              ELSE [success |-> TRUE,
                    group |-> [name |-> groups[k].name, members |-> groups[k].members]]
    /\ out' = <<>>
    /\ last' = [op |-> "getGroupDetails", groupName |-> groupName]
    /\ UNCHANGED <<users, groups, conn, rooms>>

PrivateData == [to : Names, message : Messages]
GroupData == [group : GroupNames, message : Messages]

Next ==
    \/ \E c \in Sockets : handleConnection(c)
    \/ \E c \in Sockets : handleDisconnect(c)
    \/ \E c \in Sockets, n \in Names : handleRegister(n, c)
    \/ \E c \in Sockets, d \in PrivateData : handlePrivateMessage(d, c)
    \/ \E c \in Sockets, g \in GroupNames : handleJoinGroup(g, c)
    \/ \E c \in Sockets, g \in GroupNames : handleLeaveGroup(g, c)
    \/ \E c \in Sockets, d \in GroupData : handleGroupMessage(d, c)
    \/ handleGetUsers
    \/ handleGetGroups
    \/ \E g \in GroupNames : handleGetGroupDetails(g)

Spec == Init /\ [][Next]_vars

\* ---- properties ----

\* the event handled by the step is register(n) from socket c, and so on
IsRegister(ev, c, n) == ev.op = "register" /\ ev.client = c /\ ev.username = n
IsDisconnect(ev, c) == ev.op = "disconnect" /\ ev.client = c
IsPrivateMessage(ev, c, d) == ev.op = "privateMessage" /\ ev.client = c /\ ev.data = d
IsJoinGroup(ev, c, g) == ev.op = "joinGroup" /\ ev.client = c /\ ev.groupName = g
IsLeaveGroup(ev, c, g) == ev.op = "leaveGroup" /\ ev.client = c /\ ev.groupName = g
IsGroupMessage(ev, c, d) == ev.op = "groupMessage" /\ ev.client = c /\ ev.data = d

HasSession(us, c) == \E i \in DOMAIN us : us[i].socketId = c
HasName(us, n) == \E i \in DOMAIN us : us[i].username = n
GroupExists(gs, g) == \E k \in DOMAIN gs : gs[k].name = g
\* the member set of group g (empty when there is no such group)
MemberSet(gs, g) ==
    UNION {{gs[k].members[j] : j \in DOMAIN gs[k].members} :
            k \in {kk \in DOMAIN gs : gs[kk].name = g}}
\* the name the handlers act under for socket c: the first session bound to c
CallerName(us, c) == us[FindBySocket(us, c)].username

\* C1: the users array never holds two sessions with the same username.
C1_UniqueDisplayName ==
    \A i, j \in DOMAIN users : users[i].username = users[j].username => i = j

C1_Witness ==
    /\ Len(users) = 2
    /\ last.op = "register"
    /\ HasName(users, last.username)
    /\ ~ack.success

\* C2: no two sessions in the users array have the same socketId.
C2_OneSessionPerConnection ==
    \A i, j \in DOMAIN users : users[i].socketId = users[j].socketId => i = j

\* C3: register(n) from socket c, when a session for n is bound to another
\* socket, answers Reconnected, sets that session's socketId to c and changes
\* nothing else: same id, same number of sessions, same groups and rooms.
C3_Reattachment ==
    [][\A c \in Sockets, n \in Names :
         (/\ IsRegister(last', c, n)
          /\ HasName(users, n)
          /\ users[FindByName(users, n)].socketId # c)
         => LET i == FindByName(users, n) IN
            /\ ack' = [success |-> TRUE, message |-> "Reconnected successfully"]
            /\ Len(users') = Len(users)
            /\ users'[i].socketId = c
            /\ users'[i].id = users[i].id
            /\ users'[i].username = n
            /\ \A j \in DOMAIN users : j # i => users'[j] = users[j]
            /\ groups' = groups
            /\ rooms' = rooms
            /\ out' = <<>>]_vars

C3_Witness ==
    /\ last.op = "register"
    /\ ack.success
    /\ ack.message = "Reconnected successfully"
    /\ last.username \in MemberSet(groups, "g1")
    /\ Len(users) = 2

\* C4: register(n) from the socket the session for n is already bound to
\* answers failure 'Username already taken' and changes no session, group or room.
C4_SameSocketRejected ==
    [][\A c \in Sockets, n \in Names :
         (/\ IsRegister(last', c, n)
          /\ HasName(users, n)
          /\ users[FindByName(users, n)].socketId = c)
         => /\ ack' = [success |-> FALSE, message |-> "Username already taken"]
            /\ users' = users
            /\ groups' = groups
            /\ rooms' = rooms
            /\ out' = <<>>]_vars

C4_Witness ==
    /\ last.op = "register"
    /\ ~ack.success
    /\ ack.message = "Username already taken"
    /\ users[FindByName(users, last.username)].socketId = last.client
    /\ last.username \in MemberSet(groups, "g1")

\* C5: right after socket c closes no session is bound to c, and the username
\* of every session the close removed is in no group's member list.
C5_CascadeOnDisconnect ==
    [][\A c \in Sockets :
         IsDisconnect(last', c)
         => /\ ~HasSession(users', c)
            /\ \A i \in DOMAIN users :
                 users[i].socketId = c
                 => \A g \in GroupNames : users[i].username \notin MemberSet(groups', g)]_vars

\* C6: a successful privateMessage issues exactly one emit, addressed to the
\* socketId stored in the recipient's session when the message is sent and
\* reaching that socket only; its from field is the username of a session
\* bound to the caller's socket.
C6_PrivateRouting ==
    [][\A c \in Sockets, d \in PrivateData :
         (IsPrivateMessage(last', c, d) /\ ack'.success)
         => /\ HasSession(users, c)
            /\ HasName(users, d.to)
            /\ Len(out') = 1
            /\ out'[1].event = "privateMessage"
            /\ out'[1].room = SocketRoom(users[FindByName(users, d.to)].socketId)
            /\ out'[1].recipients = {users[FindByName(users, d.to)].socketId}
            /\ out'[1].payload.message = d.message
            /\ \E i \in DOMAIN users :
                 users[i].socketId = c /\ out'[1].payload.from = users[i].username]_vars

C6_Witness ==
    /\ last.op = "privateMessage"
    /\ ack.success
    /\ Len(out) = 1
    /\ out[1].recipients # {last.client}
    /\ out[1].payload.from # last.data.to

\* C7: a groupMessage to an existing group from a registered caller fails with
\* 'not a member' and emits nothing when the caller's username is not in the
\* group's member list; otherwise it issues exactly one emit, to that group's
\* room, with from equal to the caller's username.
C7_MembershipGatedBroadcast ==
    [][\A c \in Sockets, d \in GroupData :
         (/\ IsGroupMessage(last', c, d)
          /\ HasSession(users, c)
          /\ GroupExists(groups, d.group))
         => IF CallerName(users, c) \notin MemberSet(groups, d.group)
            THEN /\ ack' = [success |-> FALSE,
                            message |-> "You are not a member of this group"]
                 /\ out' = <<>>
            ELSE /\ ack'.success
                 /\ Len(out') = 1
                 /\ out'[1].event = "groupMessage"
                 /\ out'[1].room = GroupRoom(d.group)
                 /\ out'[1].payload.from = CallerName(users, c)
                 /\ out'[1].payload.group = d.group
                 /\ out'[1].payload.message = d.message]_vars

C7_Witness ==
    /\ last.op = "groupMessage"
    /\ ~ack.success
    /\ ack.message = "You are not a member of this group"
    /\ MemberSet(groups, last.data.group) # {}

\* C8: whenever a groupMessage to group g succeeds, the emit reaches the current
\* socket of every username that is in g's member list and has a session.
C8_MembersReceiveBroadcast ==
    (last.op = "groupMessage" /\ ack.success)
    => \A i \in DOMAIN users :
         users[i].username \in MemberSet(groups, last.data.group)
         => users[i].socketId \in out[1].recipients

\* C9: no member list holds a username twice, and a joinGroup by a caller who
\* is already a member leaves the group's member list, hence memberCount, unchanged.
C9_JoinIdempotence ==
    /\ [](\A k \in DOMAIN groups : \A i, j \in DOMAIN groups[k].members :
            groups[k].members[i] = groups[k].members[j] => i = j)
    /\ [][\A c \in Sockets, g \in GroupNames :
            (/\ IsJoinGroup(last', c, g)
             /\ HasSession(users, c)
             /\ CallerName(users, c) \in MemberSet(groups, g))
            => /\ ack'.success
               /\ groups' = groups
               /\ ack'.members = groups[FindGroup(groups, g)].members]_vars

\* a join acknowledged with a list whose last entry is not the caller: the
\* caller was a member before the join
C9_Witness ==
    /\ last.op = "joinGroup"
    /\ ack.success
    /\ Len(ack.members) = 2
    /\ ack.members[2] # CallerName(users, last.client)

\* C10: leaveGroup by a registered caller answers failure 'Group not found'
\* exactly when no group has that name, and then changes nothing and emits
\* nothing; when the group exists and the caller is not a member it answers
\* success and the member list is unchanged.
C10_LeaveGroup ==
    [][\A c \in Sockets, g \in GroupNames :
         (IsLeaveGroup(last', c, g) /\ HasSession(users, c))
         => /\ (ack' = [success |-> FALSE, message |-> "Group not found"])
                <=> ~GroupExists(groups, g)
            /\ ~GroupExists(groups, g)
                => /\ users' = users /\ groups' = groups
                   /\ rooms' = rooms /\ conn' = conn /\ out' = <<>>
            /\ (GroupExists(groups, g) /\ CallerName(users, c) \notin MemberSet(groups, g))
                => /\ ack'.success
                   /\ groups' = groups]_vars

C10_Witness ==
    /\ last.op = "leaveGroup"
    /\ ack = [success |-> FALSE, message |-> "Group not found"]
    /\ users # <<>>

\* C11: after a successful joinGroup(g) the group exists, the caller's username
\* is in its member list, the caller's socket is in the group's room, and the
\* members list of the acknowledgment is the group's member list after the join.
C11_JoinEffect ==
    [][\A c \in Sockets, g \in GroupNames :
         (IsJoinGroup(last', c, g) /\ ack'.success)
         => /\ HasSession(users, c)
            /\ GroupExists(groups', g)
            /\ CallerName(users, c) \in MemberSet(groups', g)
            /\ c \in rooms'[g]
            /\ ack'.members = groups'[FindGroup(groups', g)].members
            /\ Includes(ack'.members, CallerName(users, c))]_vars

C11_Witness ==
    /\ last.op = "joinGroup"
    /\ ack.success
    /\ last.client \in rooms[last.groupName]
    /\ Len(ack.members) = 2
    /\ ack.members[2] = CallerName(users, last.client)

\* C12: privateMessage, joinGroup, leaveGroup and groupMessage from a socket
\* that owns no session answer failure 'You are not registered', emit nothing
\* and leave users, groups and rooms unchanged.
C12_NotRegistered ==
    [][\A c \in Sockets :
         (/\ last'.op \in {"privateMessage", "joinGroup", "leaveGroup", "groupMessage"}
          /\ last'.client = c
          /\ ~HasSession(users, c))
         => /\ ack' = [success |-> FALSE, message |-> "You are not registered"]
            /\ out' = <<>>
            /\ users' = users
            /\ groups' = groups
            /\ rooms' = rooms]_vars

C12_Witness ==
    /\ last.op = "joinGroup"
    /\ ~ack.success
    /\ ack.message = "You are not registered"
    /\ ~GroupExists(groups, last.groupName)
    /\ users # <<>>

\* C13: a group that is in the groups array is in it in every later state,
\* also when its member list has become empty.
C13_GroupsNeverReclaimed ==
    [][\A g \in GroupNames : GroupExists(groups, g) => GroupExists(groups', g)]_vars

C13_Witness ==
    /\ last.op = "disconnect"
    /\ GroupExists(groups, "g1")
    /\ MemberSet(groups, "g1") = {}

\* C14: every session is bound to a socket that has not closed, and a
\* privateMessage is never emitted to a closed socket.
C14_SessionsOnOpenSockets ==
    /\ \A i \in DOMAIN users : conn[users[i].socketId] = "open"
    /\ (last.op = "privateMessage" /\ ack.success)
       => /\ conn[out[1].room.id] = "open"
          /\ \A s \in out[1].recipients : conn[s] = "open"

C14_Witness ==
    /\ last.op = "privateMessage"
    /\ ack.success
    /\ \E s \in Sockets : conn[s] = "closed"
    /\ out[1].recipients # {}

\* C15: handling a socket close emits nothing, whether or not the socket
\* owned a session or was in a group's room.
C15_DisconnectIsSilent ==
    [][\A c \in Sockets : IsDisconnect(last', c) => out' = <<>>]_vars

\* a socket has closed while the socket of a group member is in the group's room
C15_Witness ==
    /\ last.op = "disconnect"
    /\ out = <<>>
    /\ rooms["g1"] # {}
    /\ Len(users) = 1
    /\ MemberSet(groups, "g1") = {users[1].username}

\* C16: getUsers, getGroups and getGroupDetails change no session, group or
\* room and emit nothing; getUsers lists exactly the usernames of the sessions,
\* and every memberCount of getGroups is the size of that group's member set.
C16_QueriesAreReadOnly ==
    [][(last'.op \in {"getUsers", "getGroups", "getGroupDetails"})
         => /\ users' = users /\ groups' = groups
            /\ rooms' = rooms /\ conn' = conn
            /\ out' = <<>>
            /\ last'.op = "getUsers"
               => /\ Len(ack'.users) = Len(users)
                  /\ \A i \in DOMAIN users : ack'.users[i] = users[i].username
            /\ last'.op = "getGroups"
               => /\ Len(ack'.groups) = Len(groups)
                  /\ \A k \in DOMAIN groups :
                       /\ ack'.groups[k].name = groups[k].name
                       /\ ack'.groups[k].memberCount =
                            Cardinality(MemberSet(groups, groups[k].name))
            /\ last'.op = "getGroupDetails"
               => IF GroupExists(groups, last'.groupName)
                  THEN /\ ack'.success
                       /\ ack'.group.name = last'.groupName
                       /\ ack'.group.members =
                            groups[FindGroup(groups, last'.groupName)].members
                  ELSE ack' = [success |-> FALSE, message |-> "Group not found"]]_vars

C16_Witness ==
    /\ last.op = "getGroups"
    /\ Len(ack.groups) = 1
    /\ ack.groups[1].memberCount = 2
    /\ Len(users) = 2

\* C17: groupMessage reports the first failing precondition only: 'You are
\* not registered' when the caller has no session (also when the group does
\* not exist), else 'Group not found' when the group is absent, else 'You are
\* not a member of this group'; a failure emits nothing and changes no state.
C17_GroupMessageCheckOrder ==
    [][\A c \in Sockets, d \in GroupData :
         IsGroupMessage(last', c, d)
         => /\ ~HasSession(users, c)
               => ack' = [success |-> FALSE, message |-> "You are not registered"]
            /\ (HasSession(users, c) /\ ~GroupExists(groups, d.group))
               => ack' = [success |-> FALSE, message |-> "Group not found"]
            /\ (/\ HasSession(users, c)
                /\ GroupExists(groups, d.group)
                /\ CallerName(users, c) \notin MemberSet(groups, d.group))
               => ack' = [success |-> FALSE,
                          message |-> "You are not a member of this group"]
            /\ ~ack'.success
               => /\ out' = <<>>
                  /\ users' = users /\ groups' = groups
                  /\ rooms' = rooms /\ conn' = conn]_vars

C17_Witness ==
    /\ last.op = "groupMessage"
    /\ ack = [success |-> FALSE, message |-> "You are not registered"]
    /\ ~GroupExists(groups, last.data.group)
    /\ users # <<>>

\* C18: a successful joinGroup issues exactly one notification, emitted after
\* the caller's socket has joined the room, so it reaches the caller's socket;
\* a successful leaveGroup issues exactly one notification, emitted after the
\* caller's socket has left the room, so it does not reach the caller's socket.
\* This includes a join by a member and a leave by a non-member.
C18_NotificationOrdering ==
    [][\A c \in Sockets, g \in GroupNames :
         /\ (IsJoinGroup(last', c, g) /\ ack'.success)
            => /\ Len(out') = 1
               /\ out'[1].event = "groupNotification"
               /\ out'[1].room = GroupRoom(g)
               /\ out'[1].payload.message = "joined the group"
               /\ out'[1].recipients = rooms[g] \cup {c}
               /\ c \in out'[1].recipients
         /\ (IsLeaveGroup(last', c, g) /\ ack'.success)
            => /\ Len(out') = 1
               /\ out'[1].event = "groupNotification"
               /\ out'[1].room = GroupRoom(g)
               /\ out'[1].payload.message = "left the group"
               /\ out'[1].recipients = rooms[g] \ {c}
               /\ c \notin out'[1].recipients]_vars

C18_Witness ==
    /\ last.op = "joinGroup"
    /\ ack.success
    /\ Len(out) = 1
    /\ out[1].recipients = {1, 2}
    /\ last.client \in out[1].recipients

\* C19: a socket is in group g's room only if it is the socketId of a session
\* whose username is in g's member list.
C19_SubscriptionConfinement ==
    \A g \in GroupNames : \A c \in rooms[g] :
        \E i \in DOMAIN users :
            users[i].socketId = c /\ users[i].username \in MemberSet(groups, g)

=============================================================================
